---- MODULE Spec2Model ----
(***************************************************************************)
(* Mental Health Diary: the "Reflect & Save" handler of app.py with its    *)
(* two SQLite stores (database/db_handler.py), and the analysis pipeline   *)
(* analyze_emotion of utils/analysis.py.                                   *)
(*                                                                         *)
(* Strings are sequences of symbols.  A symbol is one character ("a", " ") *)
(* or one fixed chunk of literal text ("<br><br><i>").  Model responses    *)
(* are sequences of tokens: an opening brace, a closing brace, prose, or   *)
(* the member list of a JSON object ("k": v, ...).                         *)
(***************************************************************************)
EXTENDS Integers, Sequences, FiniteSets, TLC

VARIABLES
    pc,         \* position of the Streamlit script run (app.py top to bottom)
    cfg,        \* [api_key, openai]: st.secrets key present, openai importable
    tables,     \* [entries, runlog]: whether each table exists in the database
    entries,    \* rows of table entries, in insertion order
    runlog,     \* rows of table runlog, in insertion order
    ui,         \* the messages the current script run has shown
    run,        \* the current run's inputs and its exchange with the API
    pre,        \* the two stores as they were when the current run started
    shown,      \* the rows a history / evaluation view has fetched
    a_pc,       \* analyze_emotion: "call" before it runs, "returned" after
    a_in,       \* analyze_emotion: its arguments and the API's behaviour
    a_out,      \* analyze_emotion: the (emotion, suggestion, raw) it returned
    s_pc,       \* scoring: "call" before a scoring function runs, "scored" after
    s_in,       \* scoring: the response text and the user's text (ref)
    s_out       \* scoring: which function ran and the score it returned

vars == <<pc, cfg, tables, entries, runlog, ui, run, pre, shown, a_pc, a_in, a_out, s_pc, s_in, s_out>>
appVars == <<pc, cfg, tables, entries, runlog, ui, run, pre, shown>>
analysisVars == <<a_pc, a_in, a_out>>
scoreVars == <<s_pc, s_in, s_out>>

----------------------------------------------------------------------------
(* Bounds *)

\* the submit handler is offered only while the entries table has fewer rows
MaxRows == 2
\* raw model responses with arbitrary framing have at most this many tokens
MaxTextLen == 3

----------------------------------------------------------------------------
(* Python strings *)

WS == {" "}

Range(s) == {s[i] : i \in 1..Len(s)}

UpperChars == <<"A", "B", "C", "D", "E", "F", "G", "H", "I", "J", "K", "L", "M", "N", "O", "P", "Q", "R", "S", "T", "U", "V", "W", "X", "Y", "Z">>
LowerChars == <<"a", "b", "c", "d", "e", "f", "g", "h", "i", "j", "k", "l", "m", "n", "o", "p", "q", "r", "s", "t", "u", "v", "w", "x", "y", "z">>

Upper == Range(UpperChars)

LowerSym(c) ==
    IF c \in Upper
    THEN LowerChars[CHOOSE i \in 1..Len(UpperChars) : UpperChars[i] = c]
    ELSE c

\* str.lower()
Lower(s) == [i \in 1..Len(s) |-> LowerSym(s[i])]

RECURSIVE LStrip(_)
LStrip(s) == IF s # <<>> /\ Head(s) \in WS THEN LStrip(Tail(s)) ELSE s

RECURSIVE RStrip(_)
RStrip(s) ==
    IF s # <<>> /\ s[Len(s)] \in WS THEN RStrip(SubSeq(s, 1, Len(s) - 1)) ELSE s

\* str.strip()
Strip(s) == RStrip(LStrip(s))

IsPrefix(p, s) == Len(p) <= Len(s) /\ SubSeq(s, 1, Len(p)) = p

HasUpper(s) == \E i \in 1..Len(s) : s[i] \in Upper

----------------------------------------------------------------------------
(* JSON values as Python sees them after json.loads; JAbsent is a key the  *)
(* object does not have.                                                   *)

JStr(s)  == [t |-> "str",    s |-> s,    b |-> FALSE, n |-> 0]
JNum(n)  == [t |-> "num",    s |-> <<>>, b |-> FALSE, n |-> n]
JBool(b) == [t |-> "bool",   s |-> <<>>, b |-> b,     n |-> 0]
JNull    == [t |-> "null",   s |-> <<>>, b |-> FALSE, n |-> 0]
JAbsent  == [t |-> "absent", s |-> <<>>, b |-> FALSE, n |-> 0]

\* Python truth value: None, "", False and 0 are falsy
Truthy(v) ==
    CASE v.t = "str"  -> v.s # <<>>
      [] v.t = "num"  -> v.n # 0
      [] v.t = "bool" -> v.b
      [] OTHER        -> FALSE

\* dict.get(key): None when the key is absent
Get(d, k) == IF d[k].t = "absent" THEN JNull ELSE d[k]

\* dict.get(key, default)
GetOr(d, k, default) == IF d[k].t = "absent" THEN default ELSE d[k]

\* "x or y"
Or(v, w) == IF Truthy(v) THEN v ELSE w

\* format(v) inside an f-string
PyStr(v) ==
    CASE v.t = "str"  -> v.s
      [] v.t = "num"  -> <<"<number>">>
      [] v.t = "bool" -> IF v.b THEN <<"True">> ELSE <<"False">>
      [] OTHER        -> <<"None">>

----------------------------------------------------------------------------
(* Raw response text: tokens *)

Keys == {"emotion", "suggestion", "followup", "crisis", "summary", "reflection", "advice"}

\* the object {} : no key present
EmptyDict == [k \in Keys |-> JAbsent]

LB    == [k |-> "lb",      m |-> EmptyDict]
RB    == [k |-> "rb",      m |-> EmptyDict]
PROSE == [k |-> "prose",   m |-> EmptyDict]
Mem(d) == [k |-> "members", m |-> d]
\* str(e) of the exception a failed call raised
ErrText(kind) == <<[k |-> kind, m |-> EmptyDict]>>

Positions(text, kind) == {i \in 1..Len(text) : text[i].k = kind}

Min(S) == CHOOSE x \in S : \A y \in S : x <= y
Max(S) == CHOOSE x \in S : \A y \in S : x >= y

\* re.search(r"\{.*\}", text, re.DOTALL): leftmost "{" through the last "}"
HasBlock(text) ==
    /\ Positions(text, "lb") # {}
    /\ Positions(text, "rb") # {}
    /\ Min(Positions(text, "lb")) < Max(Positions(text, "rb"))

Blob(text) ==
    IF HasBlock(text)
    THEN SubSeq(text, Min(Positions(text, "lb")), Max(Positions(text, "rb")))
    ELSE <<LB, RB>>

\* json.loads(blob) succeeds: "{}" or "{" members "}"
Parses(blob) ==
    \/ blob = <<LB, RB>>
    \/ Len(blob) = 3 /\ blob[1] = LB /\ blob[2].k = "members" /\ blob[3] = RB

----------------------------------------------------------------------------
(* utils/analysis.py *)

V1 == "v1 - basic empathetic reply"
V2 == "v2 - add specificity + follow-up"
V3 == "v3 - safety-aware + culture-aware (English music option)"

PROMPT_VERSIONS ==
    (V1 :> <<"analysis template v1: Return JSON with keys: emotion, suggestion.">>) @@
    (V2 :> <<"analysis template v2: Return JSON with keys: emotion, suggestion, followup.">>) @@
    (V3 :> <<"analysis template v3: Return JSON with keys: emotion, suggestion, followup, crisis.">>)

\* variant: PROMPT_VERSIONS.get(prompt_version) with no default given
LookupTemplateNoDefault(prompt_version) ==
    IF prompt_version \in DOMAIN PROMPT_VERSIONS
    THEN PROMPT_VERSIONS[prompt_version]
    ELSE <<"None">>

\* PROMPT_VERSIONS.get(prompt_version, PROMPT_VERSIONS["v1 - basic empathetic reply"])
LookupTemplate(prompt_version) ==
    IF prompt_version \in DOMAIN PROMPT_VERSIONS
    THEN PROMPT_VERSIONS[prompt_version]
    ELSE PROMPT_VERSIONS[V1]

\* f"{template}\n\nUser journal entry:\n\"\"\"\n{text}\n\"\"\""
RenderPrompt(template, text) ==
    template \o <<"<nl><nl>User journal entry:<nl><triple-quote><nl>">> \o text
             \o <<"<nl><triple-quote>">>

L_anxiety    == <<"a", "n", "x", "i", "e", "t", "y">>
L_sadness    == <<"s", "a", "d", "n", "e", "s", "s">>
L_joy        == <<"j", "o", "y">>
L_anger      == <<"a", "n", "g", "e", "r">>
L_loneliness == <<"l", "o", "n", "e", "l", "i", "n", "e", "s", "s">>
L_fear       == <<"f", "e", "a", "r">>
L_stress     == <<"s", "t", "r", "e", "s", "s">>
L_neutrality == <<"n", "e", "u", "t", "r", "a", "l", "i", "t", "y">>
L_Unknown    == <<"U", "n", "k", "n", "o", "w", "n">>

MusicLabels ==
    {L_anxiety, L_sadness, L_joy, L_anger, L_loneliness, L_fear, L_stress, L_neutrality}

MUSIC_LIBRARY == [l \in MusicLabels |->
    CASE l = L_anxiety ->
           [songs  |-> <<"Shake It Out - Florence + The Machine", "Breathe Me - Sia",
                         "Fix You - Coldplay">>,
            quotes |-> <<"You don't have to control your thoughts.",
                         "Worrying doesn't take away tomorrow's troubles.">>,
            tips   |-> <<"Take 5 slow, deep breaths and count backwards from 10.",
                         "Write down your anxious thoughts and challenge one of them.",
                         "Listen to a calm song and stretch your body.">>]
      [] l = L_sadness ->
           [songs  |-> <<"Let It Be - The Beatles", "Someone Like You - Adele",
                         "Fix You - Coldplay">>,
            quotes |-> <<"Tears are words that need to be written.",
                         "This too shall pass.">>,
            tips   |-> <<"Reach out to someone you trust for a quick chat.",
                         "Allow yourself to cry - it's healing.",
                         "Write down three small things you're grateful for.">>]
      [] l = L_joy ->
           [songs  |-> <<"Happy - Pharrell Williams", "Best Day of My Life - American Authors",
                         "Good as Hell - Lizzo">>,
            quotes |-> <<"Happiness is not something ready-made.",
                         "The more you celebrate your life, the more there is to celebrate.">>,
            tips   |-> <<"Share your joy with someone else.",
                         "Capture this moment in your journal or take a photo.",
                         "Create a playlist of upbeat songs.">>]
      [] l = L_anger ->
           [songs  |-> <<"Lose Yourself - Eminem", "Numb - Linkin Park",
                         "Stronger - Kanye West">>,
            quotes |-> <<"For every minute you are angry, you lose sixty seconds of happiness.",
                         "Speak when you are angry and you will make the best speech you will ever regret.">>,
            tips   |-> <<"Go for a walk or do a quick workout to release tension.",
                         "Write down what made you angry, then rip the page.",
                         "Take a deep breath before reacting.">>]
      [] l = L_loneliness ->
           [songs  |-> <<"Fix You - Coldplay", "Lean On Me - Bill Withers",
                         "See You Again - Wiz Khalifa ft. Charlie Puth">>,
            quotes |-> <<"The eternal quest of the human being is to shatter his loneliness.",
                         "You are never truly alone.">>,
            tips   |-> <<"Send a message to someone you miss.",
                         "Join an online community or hobby group.",
                         "Watch or listen to something that makes you smile.">>]
      [] l = L_fear ->
           [songs  |-> <<"Brave - Sara Bareilles", "Fight Song - Rachel Platten",
                         "Don't Stop Believin' - Journey">>,
            quotes |-> <<"Do the thing you fear and the death of fear is certain.",
                         "Everything you want is on the other side of fear.">>,
            tips   |-> <<"Write down what you're afraid of and one tiny action you can take.",
                         "Remind yourself of a time you overcame something tough.",
                         "Take one deep breath and move forward.">>]
      [] l = L_stress ->
           [songs  |-> <<"Weightless - Marconi Union", "Budapest - George Ezra",
                         "Let It Go - James Bay">>,
            quotes |-> <<"Almost everything will work again if you unplug it for a few minutes.",
                         "Slow down and everything you are chasing will come around and catch you.">>,
            tips   |-> <<"Take a 5-minute break and stretch.",
                         "Drink some water and breathe deeply.",
                         "Focus on just one task - small wins reduce stress.">>]
      [] OTHER ->
           [songs  |-> <<"Viva La Vida - Coldplay", "Riptide - Vance Joy",
                         "Home - Edward Sharpe & The Magnetic Zeros">>,
            quotes |-> <<"Contentment is not the fulfillment of what you want.",
                         "Small steps every day lead to big changes.">>,
            tips   |-> <<"Write one thing you appreciate today.",
                         "Take a short walk and notice your surroundings.",
                         "Try something new, even small - novelty lifts energy.">>]]

\* the record _extract_json returns when json.loads raises
DefaultRecord ==
    [EmptyDict EXCEPT !["emotion"] = JStr(L_neutrality), !["suggestion"] = JStr(<<>>),
                      !["followup"] = JNull, !["crisis"] = JBool(FALSE)]

\* variant: the except branch returns {} instead of the default record
ExtractJsonEmptyOnError(text) ==
    LET blob == Blob(text) IN
    IF Parses(blob) /\ Len(blob) = 3 THEN blob[2].m ELSE EmptyDict

\* utils/analysis.py _extract_json
ExtractJson(text) ==
    LET blob == Blob(text) IN
    IF Parses(blob)
    THEN IF Len(blob) = 3 THEN blob[2].m ELSE EmptyDict
    ELSE DefaultRecord

Banner ==
    <<"<div style='border-left: 4px solid #e11; padding: 10px; margin: 10px 0;'>",
      "<b>If you are in immediate danger or considering self-harm:</b> ",
      "Please reach out to local emergency services or call <b>988</b> (U.S. Suicide & Crisis Lifeline). ",
      "This app is not a medical device.</div>">>

FallbackHtml(song, quote, tip) ==
    <<" ", "<div style='font-size:16px; line-height:1.6'>", "<b>Song:</b> ", song,
      "<br>", "<b>Quote:</b> <i>", quote, "</i><br>", "<b>Tip:</b> ", tip, "</div>", " ">>

\* variant: the label is ignored and the default bucket is always used
BucketDefaultOnly(emotion) == MUSIC_LIBRARY[L_neutrality]

\* MUSIC_LIBRARY.get(emotion, MUSIC_LIBRARY["neutrality"])
Bucket(emotion) ==
    IF emotion \in DOMAIN MUSIC_LIBRARY THEN MUSIC_LIBRARY[emotion]
    ELSE MUSIC_LIBRARY[L_neutrality]

\* what the except branch of analyze_emotion returns
AnalyzeFailed(user_prompt, kind, calls, data) ==
    [emotion |-> L_Unknown, suggestion |-> <<"Please try again later.">>,
     request |-> user_prompt, response |-> ErrText(kind),
     error |-> "Error analyzing emotion", calls |-> calls, data |-> data,
     extracted |-> kind = "post-processing", fallback |-> FALSE]

\* the body of analyze_emotion's try block after the call returned raw_text
PostProcess(user_prompt, raw_text) ==
    LET data     == ExtractJson(raw_text)
        emo      == Or(Get(data, "emotion"), JStr(L_neutrality))
        sugg0    == Or(Get(data, "suggestion"), JStr(<<>>))
        followup == Get(data, "followup")
        crisis   == Truthy(GetOr(data, "crisis", JBool(FALSE)))
        sugg1    == IF Truthy(followup)
                    THEN sugg0.s \o <<"<br><br><i>">> \o PyStr(followup) \o <<"</i>">>
                    ELSE sugg0.s
        sugg2    == IF crisis THEN Banner \o sugg1 ELSE sugg1
        emotion  == Lower(Strip(emo.s))
        lib      == Bucket(emotion)
    IN  IF emo.t # "str" \/ sugg0.t # "str"
        THEN \* .strip(), += or + on a value that is no str raises
             {AnalyzeFailed(user_prompt, "post-processing", 1, data)}
        ELSE IF Strip(sugg2) = <<>>
        THEN {[emotion |-> emotion,
               suggestion |-> FallbackHtml(lib.songs[i], lib.quotes[j], lib.tips[k]),
               request |-> user_prompt, response |-> raw_text,
               error |-> "none", calls |-> 1, data |-> data,
               extracted |-> TRUE, fallback |-> TRUE] :
                 i \in 1..Len(lib.songs), j \in 1..Len(lib.quotes), k \in 1..Len(lib.tips)}
        ELSE {[emotion |-> emotion, suggestion |-> sugg2,
               request |-> user_prompt, response |-> raw_text,
               error |-> "none", calls |-> 1, data |-> data,
               extracted |-> TRUE, fallback |-> FALSE]}

\* analyze_emotion(text, prompt_version): every result it can return
AnalyzeEmotion(in) ==
    LET template    == LookupTemplate(in.prompt_version)
        user_prompt == RenderPrompt(template, in.text)
    IN  IF ~in.api_key
        THEN {[emotion |-> L_Unknown, suggestion |-> <<"Missing API key">>,
               request |-> <<>>, response |-> <<>>,
               error |-> "Missing OpenAI API key.", calls |-> 0, data |-> EmptyDict,
               extracted |-> FALSE, fallback |-> FALSE]}
        ELSE IF in.api.kind # "ok"
        THEN {AnalyzeFailed(user_prompt, in.api.kind, 1, EmptyDict)}
        ELSE PostProcess(user_prompt, in.api.text)

----------------------------------------------------------------------------
(* database/db_handler.py *)

\* variant: DROP TABLE, then CREATE TABLE
CreateFresh(exists, rows) == <<>>

\* CREATE TABLE IF NOT EXISTS: an existing table and its rows are left alone
CreateIfAbsent(exists, rows) == IF exists THEN rows ELSE <<>>

\* INSERT INTO entries(date, entry, emotion, suggestion) VALUES(?,?,?,?)
insert_entry(rows, date, entry, emotion, suggestion) ==
    Append(rows, [date |-> date, entry |-> entry, emotion |-> emotion,
                  suggestion |-> suggestion])

\* INSERT INTO runlog(...) VALUES(?,?,?,?,?,?,?,?)
insert_runlog(rows, timestamp, prompt_version, model, temp, maxtok, user_input, raw_request, raw_response) ==
    Append(rows, [timestamp |-> timestamp, prompt_version |-> prompt_version,
                  model |-> model, temperature |-> temp, max_tokens |-> maxtok,
                  user_input |-> user_input, raw_request |-> raw_request,
                  raw_response |-> raw_response])

\* rows in ascending order of key, rows of equal key in insertion order
RECURSIVE SortAsc(_, _)
SortAsc(rows, key) ==
    IF rows = <<>> THEN <<>>
    ELSE LET m    == Min({rows[i][key] : i \in 1..Len(rows)})
             i0   == Min({i \in 1..Len(rows) : rows[i][key] = m})
             rest == SubSeq(rows, 1, i0 - 1) \o SubSeq(rows, i0 + 1, Len(rows))
         IN  <<rows[i0]>> \o SortAsc(rest, key)

RECURSIVE SortDesc(_, _)
SortDesc(rows, key) ==
    IF rows = <<>> THEN <<>>
    ELSE LET m    == Max({rows[i][key] : i \in 1..Len(rows)})
             i0   == Min({i \in 1..Len(rows) : rows[i][key] = m})
             rest == SubSeq(rows, 1, i0 - 1) \o SubSeq(rows, i0 + 1, Len(rows))
         IN  <<rows[i0]>> \o SortDesc(rest, key)

\* SELECT ... FROM entries ORDER BY date ASC
get_all_entries == SortAsc(entries, "date")

\* SELECT ... FROM runlog ORDER BY timestamp DESC
get_all_runlogs == SortDesc(runlog, "timestamp")

----------------------------------------------------------------------------
(* app.py *)

A1 == "v1 - concise therapist"
A2 == "v2 - therapist + pattern spotting"
A3 == "v3 - therapist + resilience focus"

App_PROMPT_VERSIONS ==
    (A1 :> <<"app template v1: Return JSON with keys: summary, reflection, advice.">>) @@
    (A2 :> <<"app template v2: Return JSON: summary, reflection, advice.">>) @@
    (A3 :> <<"app template v3: Return JSON with keys: summary, reflection, advice.">>)

model_name == "gpt-3.5-turbo"
\* the sidebar slider's default, in tenths
temperature == 3
max_tokens == 600

MsgLibrary == "error: OpenAI library not found."
MsgWarning == "warning: Please write something before submitting."
MsgError   == "error: Error generating reflection"
MsgKeyInfo == "info: Add your OpenAI API key to Streamlit secrets."
MsgSuccess == "success: Saved entry and logged the session"
MsgNoRows  == "info: nothing stored yet"

\* variant: a failed call is issued once more before giving up
ChatCompleteRetry(api) ==
    IF ~cfg.api_key \/ ~cfg.openai
    THEN [ok |-> FALSE, calls |-> 0, kind |-> "missing-key", raw |-> <<>>]
    ELSE IF api.kind # "ok"
    THEN [ok |-> FALSE, calls |-> 2, kind |-> api.kind, raw |-> <<>>]
    ELSE [ok |-> TRUE, calls |-> 1, kind |-> "ok", raw |-> api.text]

\* variant: the request is sent without looking at the key first
ChatCompleteNoKeyCheck(api) ==
    IF api.kind # "ok" \/ ~cfg.api_key \/ ~cfg.openai
    THEN [ok |-> FALSE, calls |-> 1,
          kind |-> IF api.kind # "ok" THEN api.kind ELSE "network", raw |-> <<>>]
    ELSE [ok |-> TRUE, calls |-> 1, kind |-> "ok", raw |-> api.text]

\* _chat_complete(prompt) against an API that behaves as `api`
ChatComplete(api) ==
    IF ~cfg.api_key \/ ~cfg.openai
    THEN [ok |-> FALSE, calls |-> 0, kind |-> "missing-key", raw |-> <<>>]
    ELSE IF api.kind # "ok"
    THEN [ok |-> FALSE, calls |-> 1, kind |-> api.kind, raw |-> <<>>]
    ELSE [ok |-> TRUE, calls |-> 1, kind |-> "ok", raw |-> api.text]

\* the record app.py's _extract_json returns when json.loads raises
AppDefaultRecord ==
    [EmptyDict EXCEPT !["summary"] = JStr(<<>>), !["reflection"] = JStr(<<>>),
                      !["advice"] = JStr(<<>>)]

\* app.py _extract_json
AppExtractJson(text) ==
    LET blob == Blob(text) IN
    IF Parses(blob)
    THEN IF Len(blob) = 3 THEN blob[2].m ELSE EmptyDict
    ELSE AppDefaultRecord

\* (data.get(key) or "") before .strip()
Field(data, key) == Or(Get(data, key), JStr(<<>>))

CombinedHtml(summary, reflection, advice) ==
    <<" ", "<div style='font-size:16px; line-height:1.6'>", "<b>Summary:</b> ">>
    \o summary \o <<"<br><br>", "<b>Reflection:</b> ">> \o reflection
    \o <<"<br><br>", "<b>Advice:</b> ">> \o advice \o <<"</div>", " ">>

\* variant: the extracted block is logged in place of the raw response
LoggedRowBlob(rows, now, prompt_choice, entry, user_prompt, raw) ==
    insert_runlog(rows, now, prompt_choice, model_name, temperature, max_tokens,
                  entry, user_prompt, Blob(raw))

\* variant: the run-log insert is executed twice
LoggedRowTwice(rows, now, prompt_choice, entry, user_prompt, raw) ==
    LET once == insert_runlog(rows, now, prompt_choice, model_name, temperature,
                              max_tokens, entry, user_prompt, raw)
    IN  insert_runlog(once, now, prompt_choice, model_name, temperature, max_tokens,
                      entry, user_prompt, raw)

\* the row the handler writes to the run log
LoggedRow(rows, now, prompt_choice, entry, user_prompt, raw) ==
    insert_runlog(rows, now, prompt_choice, model_name, temperature, max_tokens,
                  entry, user_prompt, raw)

\* the row the handler writes to the entries table
SavedRow(rows, now, entry, combined_html) ==
    insert_entry(rows, now, entry, <<"m", "i", "x", "e", "d">>, combined_html)

\* the except branch: st.error, and st.info when the key is missing
ErrorMessages == {MsgError} \cup (IF cfg.api_key THEN {} ELSE {MsgKeyInfo})

\* variant: "if not entry", without .strip()
IsBlankNoStrip(entry) == entry = <<>>

\* whether the handler takes the empty-entry branch: "if not entry.strip()"
IsBlank(entry) == Strip(entry) = <<>>

\* the "Reflect & Save" handler: the stores and messages it ends with
ReflectAndSave(entry, prompt_choice, api, db, now) ==
    LET none == [page |-> "write", entry |-> entry, prompt_choice |-> prompt_choice,
                 calls |-> 0, kind |-> "none", raw |-> <<>>, request |-> <<>>]
    IN
    IF IsBlank(entry)
    THEN [entries |-> entries, runlog |-> runlog, ui |-> {MsgWarning}, run |-> none]
    ELSE
      LET template    == App_PROMPT_VERSIONS[prompt_choice]
          user_prompt == RenderPrompt(template, entry)
          chat        == ChatComplete(api)
          data        == AppExtractJson(chat.raw)
          summary     == Field(data, "summary")
          reflection  == Field(data, "reflection")
          advice      == Field(data, "advice")
          combined    == CombinedHtml(Strip(summary.s), Strip(reflection.s), Strip(advice.s))
          called      == [none EXCEPT !.calls = chat.calls, !.kind = chat.kind,
                                      !.raw = chat.raw,
                                      !.request = IF chat.calls > 0 THEN user_prompt ELSE <<>>]
          failed      == [entries |-> entries, runlog |-> runlog, ui |-> ErrorMessages,
                          run |-> called]
      IN
      IF ~chat.ok THEN failed
      ELSE IF summary.t # "str" \/ reflection.t # "str" \/ advice.t # "str"
      THEN [failed EXCEPT !.run.kind = "post-processing"]
      ELSE IF ~(tables.entries /\ db.entry_ok)
      THEN [failed EXCEPT !.run.kind = "insert_entry"]
      ELSE IF ~(tables.runlog /\ db.runlog_ok)
      THEN [failed EXCEPT !.entries = SavedRow(entries, now, entry, combined),
                          !.run.kind = "insert_runlog"]
      ELSE [entries |-> SavedRow(entries, now, entry, combined),
            runlog  |-> LoggedRow(runlog, now, prompt_choice, entry, user_prompt, chat.raw),
            ui      |-> {MsgSuccess},
            run     |-> called]

----------------------------------------------------------------------------
(* Inputs *)

EntryTexts == {<<>>, <<" ">>, <<"a">>, <<" ", "a">>}

Clock == {1}

Padded(sym) == JStr(<<" ", sym, " ">>)

AppDictFull ==
    [EmptyDict EXCEPT !["summary"] = Padded("You had a mixed day."),
                      !["reflection"] = JStr(<<"You showed resilience.">>),
                      !["advice"] = JStr(<<"Try a short walk tomorrow.">>)]
AppDictPartial ==
    [EmptyDict EXCEPT !["summary"] = JNull,
                      !["reflection"] = JStr(<<"You showed resilience.">>)]
AppDictNumber ==
    [AppDictFull EXCEPT !["summary"] = JNum(5)]

AppTexts ==
    {<<PROSE>>, <<LB, PROSE, RB>>, <<LB, Mem(AppDictFull), RB>>,
     <<PROSE, LB, Mem(AppDictPartial), RB, PROSE>>, <<LB, Mem(AppDictNumber), RB>>}

ApiFailures == {[kind |-> "network", text |-> <<>>], [kind |-> "malformed", text |-> <<>>]}

AppApiBehaviours == ApiFailures \cup {[kind |-> "ok", text |-> t] : t \in AppTexts}

DbBehaviours == [entry_ok : BOOLEAN, runlog_ok : BOOLEAN]

NoRun == [page |-> "none", entry |-> <<>>, prompt_choice |-> "", calls |-> 0,
          kind |-> "none", raw |-> <<>>, request |-> <<>>]

IdleIn == [api_key |-> FALSE, text |-> <<>>, prompt_version |-> "",
           api |-> [kind |-> "network", text |-> <<>>]]
IdleOut == [emotion |-> <<>>, suggestion |-> <<>>, request |-> <<>>, response |-> <<>>,
            error |-> "none", calls |-> 0, data |-> EmptyDict, extracted |-> FALSE,
            fallback |-> FALSE]

IdleScoreIn == [text |-> <<>>, ref |-> <<>>]
IdleScoreOut == [fn |-> "none", score |-> 0]

----------------------------------------------------------------------------
(* The Streamlit script: every interaction reruns app.py from the top *)

Init ==
    /\ pc = "init_db"
    /\ cfg \in [api_key : BOOLEAN, openai : BOOLEAN]
    /\ tables = [entries |-> FALSE, runlog |-> FALSE]
    /\ entries = <<>>
    /\ runlog = <<>>
    /\ ui = {}
    /\ run = NoRun
    /\ pre = [entries |-> <<>>, runlog |-> <<>>]
    /\ shown = <<>>
    /\ a_pc = "idle" /\ a_in = IdleIn /\ a_out = IdleOut
    /\ s_pc = "idle" /\ s_in = IdleScoreIn /\ s_out = IdleScoreOut

\* app.py:174  DB["init_db"]()
init_db ==
    /\ pc = "init_db"
    /\ entries' = CreateIfAbsent(tables.entries, entries)
    /\ tables' = [tables EXCEPT !.entries = TRUE]
    /\ pc' = "ensure_migrations"
    /\ UNCHANGED <<cfg, runlog, ui, run, pre, shown, analysisVars, scoreVars>>

\* app.py:175  DB["ensure_migrations"]()
ensure_migrations ==
    /\ pc = "ensure_migrations"
    /\ runlog' = CreateIfAbsent(tables.runlog, runlog)
    /\ tables' = [tables EXCEPT !.runlog = TRUE]
    /\ pc' = "setup"
    /\ UNCHANGED <<cfg, entries, ui, run, pre, shown, analysisVars, scoreVars>>

\* app.py:178-182  OpenAI setup
OpenAISetup ==
    /\ pc = "setup"
    /\ ui' = IF cfg.openai THEN ui ELSE ui \cup {MsgLibrary}
    /\ pc' = "page"
    /\ UNCHANGED <<cfg, tables, entries, runlog, run, pre, shown, analysisVars, scoreVars>>

\* app.py:235-292  page "Write Journal", button "Reflect & Save" pressed
Submit ==
    /\ pc = "page"
    /\ Len(entries) < MaxRows
    /\ \E entry \in EntryTexts, prompt_choice \in DOMAIN App_PROMPT_VERSIONS,
          api \in AppApiBehaviours, db \in DbBehaviours, now \in Clock :
          LET r == ReflectAndSave(entry, prompt_choice, api, db, now) IN
          /\ entries' = r.entries
          /\ runlog' = r.runlog
          /\ ui' = ui \cup r.ui
          /\ run' = r.run
    /\ pc' = "done"
    /\ UNCHANGED <<cfg, tables, pre, shown, analysisVars, scoreVars>>

\* app.py:295-323  page "History"
History ==
    /\ pc = "page"
    /\ shown' = get_all_entries
    /\ ui' = IF get_all_entries = <<>> THEN ui \cup {MsgNoRows} ELSE ui
    /\ run' = [NoRun EXCEPT !.page = "history"]
    /\ pc' = "done"
    /\ UNCHANGED <<cfg, tables, entries, runlog, pre, analysisVars, scoreVars>>

\* app.py:326-366  page "Evaluate Outputs"
Evaluate ==
    /\ pc = "page"
    /\ shown' = get_all_runlogs
    /\ ui' = IF get_all_runlogs = <<>> THEN ui \cup {MsgNoRows} ELSE ui
    /\ run' = [NoRun EXCEPT !.page = "evaluate"]
    /\ pc' = "done"
    /\ UNCHANGED <<cfg, tables, entries, runlog, pre, analysisVars, scoreVars>>

\* the next interaction: Streamlit runs the script again on a cleared page;
\* the run reads st.secrets anew (app.py:178), and the key may have been
\* added to or removed from the secrets since the last run
Rerun ==
    /\ pc = "done"
    /\ pc' = "init_db"
    /\ \E k \in BOOLEAN : cfg' = [cfg EXCEPT !.api_key = k]
    /\ ui' = {}
    /\ run' = NoRun
    /\ shown' = <<>>
    /\ pre' = [entries |-> entries, runlog |-> runlog]
    /\ UNCHANGED <<tables, entries, runlog, analysisVars, scoreVars>>

Next ==
    \/ init_db
    \/ ensure_migrations
    \/ OpenAISetup
    \/ Submit
    \/ History
    \/ Evaluate
    \/ Rerun

Spec == Init /\ [][Next]_vars

----------------------------------------------------------------------------
(* analyze_emotion (utils/analysis.py) applied to one call's inputs *)

EmotionValues ==
    {JAbsent, JNull, JStr(<<>>), JStr(<<"J", "o", "y">>),
     JStr(<<" ", "a", "n", "x", "i", "e", "t", "y", " ">>), JStr(<<"z">>), JNum(5),
     JStr(L_sadness), JStr(L_anger), JStr(L_loneliness), JStr(L_fear), JStr(L_stress),
     JStr(L_neutrality)}
SuggestionValues ==
    {JAbsent, JStr(<<>>), JStr(<<" ">>), JStr(<<"Try a short walk.">>), JNum(5)}
FollowupValues == {JAbsent, JNull, JStr(<<"What helped today?">>)}
CrisisValues == {JAbsent, JNull, JBool(TRUE), JBool(FALSE), JStr(<<"false">>)}

AnalysisDicts ==
    {[EmptyDict EXCEPT !["emotion"] = e, !["suggestion"] = s, !["followup"] = f,
                       !["crisis"] = c] :
        e \in EmotionValues, s \in SuggestionValues, f \in FollowupValues,
        c \in CrisisValues}

SampleDict ==
    [EmptyDict EXCEPT !["emotion"] = JStr(<<"J", "o", "y">>),
                      !["suggestion"] = JStr(<<"Try a short walk.">>),
                      !["crisis"] = JBool(TRUE)]

\* responses with any framing: every token sequence up to MaxTextLen
FramedTexts ==
    UNION {[1..n -> {LB, RB, PROSE, Mem(SampleDict)}] : n \in 0..MaxTextLen}

\* responses holding one object, bare or wrapped in prose, with any members
RecordTexts ==
    {<<LB, Mem(d), RB>> : d \in AnalysisDicts}
    \cup {<<PROSE, LB, Mem(d), RB, PROSE>> : d \in AnalysisDicts}

AnalysisApiBehaviours ==
    ApiFailures \cup {[kind |-> "ok", text |-> t] : t \in FramedTexts \cup RecordTexts}

VersionIds == DOMAIN PROMPT_VERSIONS \cup {"v9 - removed from the catalog"}

AnalysisInputs ==
    {[api_key |-> TRUE, text |-> <<"a">>, prompt_version |-> v, api |-> a] :
        v \in VersionIds, a \in AnalysisApiBehaviours}
    \cup {[api_key |-> FALSE, text |-> <<"a">>, prompt_version |-> v,
           api |-> [kind |-> "ok", text |-> <<LB, Mem(SampleDict), RB>>]] :
        v \in VersionIds}

InitAnalysis ==
    /\ pc = "init_db"
    /\ cfg = [api_key |-> TRUE, openai |-> TRUE]
    /\ tables = [entries |-> FALSE, runlog |-> FALSE]
    /\ entries = <<>>
    /\ runlog = <<>>
    /\ ui = {}
    /\ run = NoRun
    /\ pre = [entries |-> <<>>, runlog |-> <<>>]
    /\ shown = <<>>
    /\ a_pc = "call"
    /\ a_in \in AnalysisInputs
    /\ a_out = IdleOut
    /\ s_pc = "idle" /\ s_in = IdleScoreIn /\ s_out = IdleScoreOut

\* utils/analysis.py:182-238  one call of analyze_emotion
Analyze ==
    /\ a_pc = "call"
    /\ \E r \in AnalyzeEmotion(a_in) : a_out' = r
    /\ a_pc' = "returned"
    /\ UNCHANGED <<a_in, appVars, scoreVars>>

NextAnalysis == Analyze

SpecAnalysis == InitAnalysis /\ [][NextAnalysis]_vars

----------------------------------------------------------------------------
(* The heuristic scores of the Evaluate page (app.py) and of the evaluation *)
(* report (utils/analysis.py); texts are sequences of single characters    *)

\* c in text
Occurs(c, text) ==
    \E i \in 0..(Len(text) - Len(c)) : SubSeq(text, i + 1, i + Len(c)) = c

Min2(a, b) == IF a < b THEN a ELSE b

\* app.py:209
AppCues == <<
    <<"I", " ", "h", "e", "a", "r">>,
    <<"i", "t", " ", "s", "o", "u", "n", "d", "s">>,
    <<"I", " ", "u", "n", "d", "e", "r", "s", "t", "a", "n", "d">>,
    <<"v", "a", "l", "i", "d">>,
    <<"m", "a", "k", "e", "s", " ", "s", "e", "n", "s", "e">>,
    <<"i", "t", "'", "s", " ", "o", "k", "a", "y">>,
    <<"y", "o", "u", " ", "s", "h", "o", "w", "e", "d">> >>

\* utils/analysis.py:243
AnalysisCues == <<
    <<"I", " ", "h", "e", "a", "r">>,
    <<"i", "t", " ", "s", "o", "u", "n", "d", "s">>,
    <<"I", " ", "u", "n", "d", "e", "r", "s", "t", "a", "n", "d">>,
    <<"v", "a", "l", "i", "d">>,
    <<"m", "a", "k", "e", "s", " ", "s", "e", "n", "s", "e">>,
    <<"I", "'", "m", " ", "s", "o", "r", "r", "y">>,
    <<"g", "l", "a", "d">> >>

\* variant: the cue is compared as written, without lowercasing it
RECURSIVE CountCuesAsWritten(_, _)
CountCuesAsWritten(cues, text) ==
    IF cues = <<>> THEN 0
    ELSE (IF Occurs(Head(cues), Lower(text)) THEN 1 ELSE 0)
         + CountCuesAsWritten(Tail(cues), text)

\* sum(1 for c in cues if c.lower() in text.lower())
RECURSIVE CountCues(_, _)
CountCues(cues, text) ==
    IF cues = <<>> THEN 0
    ELSE (IF Occurs(Lower(Head(cues)), Lower(text)) THEN 1 ELSE 0)
         + CountCues(Tail(cues), text)

score_empathy_AsWritten(text) == Min2(5, CountCuesAsWritten(AppCues, text))

\* app.py:208-210
score_empathy(text) == Min2(5, CountCues(AppCues, text))

\* utils/analysis.py:242-244
analysis_score_empathy(text) == Min2(5, CountCues(AnalysisCues, text))

\* str.split(): the maximal runs of non-whitespace characters
RECURSIVE Split(_)
Split(s) ==
    LET t == LStrip(s) IN
    IF t = <<>> THEN <<>>
    ELSE LET ends == {i \in 1..Len(t) : t[i] \in WS}
             n == IF ends = {} THEN Len(t) + 1 ELSE Min(ends)
         IN  <<SubSeq(t, 1, n - 1)>> \o Split(SubSeq(t, n, Len(t)))

Digits == <<"0", "1", "2", "3", "4", "5", "6", "7", "8", "9">>

\* re.sub(r"[^a-z0-9]", "", tok)
StripNonAlnum(tok) ==
    SelectSeq(tok, LAMBDA c : c \in Range(LowerChars) \cup Range(Digits))

\* variant: tokens of exactly 5 characters qualify too
RECURSIVE SpecificityLoopFromFive(_, _, _, _)
SpecificityLoopFromFive(toks, text, hits, seen) ==
    IF toks = <<>> THEN hits
    ELSE LET tok == StripNonAlnum(Head(toks)) IN
         IF Len(tok) >= 5 /\ tok \notin seen
         THEN LET h == IF Occurs(tok, Lower(text)) THEN hits + 1 ELSE hits IN
              IF h >= 5 THEN h
              ELSE SpecificityLoopFromFive(Tail(toks), text, h, seen \cup {tok})
         ELSE SpecificityLoopFromFive(Tail(toks), text, hits, seen)

\* the for loop of score_specificity: hits after the tokens toks, given the
\* hits and the set seen so far; it stops as soon as hits reaches 5
RECURSIVE SpecificityLoop(_, _, _, _)
SpecificityLoop(toks, text, hits, seen) ==
    IF toks = <<>> THEN hits
    ELSE LET tok == StripNonAlnum(Head(toks)) IN
         IF Len(tok) > 5 /\ tok \notin seen
         THEN LET h == IF Occurs(tok, Lower(text)) THEN hits + 1 ELSE hits IN
              IF h >= 5 THEN h
              ELSE SpecificityLoop(Tail(toks), text, h, seen \cup {tok})
         ELSE SpecificityLoop(Tail(toks), text, hits, seen)

score_specificity_FromFive(text, ref) == Min2(5, 1 + SpecificityLoopFromFive(Split(Lower(ref)), text, 0, {}))

\* app.py:212-224
score_specificity(text, ref) == Min2(5, 1 + SpecificityLoop(Split(Lower(ref)), text, 0, {}))

\* utils/analysis.py:246-257
analysis_score_specificity(text, ref) == Min2(5, 1 + SpecificityLoop(Split(Lower(ref)), text, 0, {}))

(* Inputs of the scoring functions *)

\* the words of ws whose index is in picked, in order, separated by blanks
RECURSIVE JoinPicked(_, _, _)
JoinPicked(ws, picked, i) ==
    IF i > Len(ws) THEN <<>>
    ELSE LET rest == JoinPicked(ws, picked, i + 1) IN
         IF i \notin picked THEN rest
         ELSE IF rest = <<>> THEN ws[i] ELSE ws[i] \o <<" ">> \o rest

ExampleText == <<"I", " ", "h", "e", "a", "r", " ", "y", "o", "u", ",", " ", "t", "h", "a", "t", " ", "s", "o", "u", "n", "d", "s", " ", "h", "a", "r", "d">>

\* pieces of response text: cues in varied case, a cue inside a longer word,
\* a near miss ("that sounds") and plain words
EmpathyFragments == <<
    <<"I", " ", "h", "e", "a", "r", " ", "y", "o", "u", ",", " ", "t", "h", "a", "t", " ", "s", "o", "u", "n", "d", "s", " ", "h", "a", "r", "d">>,
    <<"I", "T", " ", "S", "O", "U", "N", "D", "S">>,
    <<"i", " ", "U", "n", "d", "e", "r", "s", "t", "a", "n", "d">>,
    <<"i", "n", "V", "A", "L", "I", "D", "a", "t", "e">>,
    <<"M", "a", "k", "e", "s", " ", "s", "e", "n", "s", "e">>,
    <<"i", "t", "'", "s", " ", "o", "k", "a", "y">>,
    <<"Y", "o", "u", " ", "S", "h", "o", "w", "e", "d">>,
    <<"I", "'", "m", " ", "s", "o", "r", "r", "y">>,
    <<"G", "l", "a", "d">>,
    <<"h", "e", "l", "l", "o", " ", "t", "h", "e", "r", "e">> >>

EmpathyTexts == {JoinPicked(EmpathyFragments, S, 1) : S \in SUBSET (1..Len(EmpathyFragments))}

\* words of user text: long and short ones, a repeat in another case with
\* punctuation, and one with digits
RefWords == <<
    <<"s", "t", "r", "e", "s", "s", "e", "d">>,
    <<"a", "b", "o", "u", "t">>,
    <<"r", "e", "s", "u", "l", "t", "s">>,
    <<"w", "e", "e", "k", "s">>,
    <<"S", "t", "r", "e", "s", "s", "e", "d", ",">>,
    <<"f", "r", "i", "e", "n", "d", "s">>,
    <<"m", "o", "r", "n", "i", "n", "g">>,
    <<"p", "r", "o", "j", "e", "c", "t">>,
    <<"d", "e", "a", "d", "l", "i", "n", "e">>,
    <<"e", "x", "a", "m", "-", "2", "0", "2", "4">> >>

RefTexts == {JoinPicked(RefWords, S, 1) : S \in SUBSET (1..Len(RefWords))}

Responses == {
    <<"y", "o", "u", " ", "m", "e", "n", "t", "i", "o", "n", "e", "d", " ", "e", "x", "a", "m", " ", "s", "t", "r", "e", "s", "s">>,
    <<"S", "t", "r", "e", "s", "s", "e", "d", " ", "a", "b", "o", "u", "t", " ", "r", "e", "s", "u", "l", "t", "s", " ", "f", "o", "r", " ", "w", "e", "e", "k", "s", ";", " ", "f", "r", "i", "e", "n", "d", "s", ",", " ", "m", "o", "r", "n", "i", "n", "g", ",", " ", "p", "r", "o", "j", "e", "c", "t">>,
    <<"t", "h", "e", " ", "d", "e", "a", "d", "l", "i", "n", "e", " ", "f", "o", "r", " ", "e", "x", "a", "m", "2", "0", "2", "4">>,
    <<"a", "b", "o", "u", "t", " ", "w", "e", "e", "k", "s", " ", "o", "f", " ", "d", "e", "a", "d", "l", "i", "n", "e">> }

ScoreInputs ==
    {[text |-> t, ref |-> <<>>] : t \in EmpathyTexts}
    \cup {[text |-> t, ref |-> r] : t \in Responses, r \in RefTexts}

InitScore ==
    /\ pc = "init_db"
    /\ cfg = [api_key |-> TRUE, openai |-> TRUE]
    /\ tables = [entries |-> FALSE, runlog |-> FALSE]
    /\ entries = <<>>
    /\ runlog = <<>>
    /\ ui = {}
    /\ run = NoRun
    /\ pre = [entries |-> <<>>, runlog |-> <<>>]
    /\ shown = <<>>
    /\ a_pc = "idle" /\ a_in = IdleIn /\ a_out = IdleOut
    /\ s_pc = "call"
    /\ s_in \in ScoreInputs
    /\ s_out = IdleScoreOut

\* app.py:347  "Empathy": score_empathy(resp)
EvalEmpathy ==
    /\ s_pc = "call"
    /\ s_out' = [fn |-> "score_empathy", score |-> score_empathy(s_in.text)]
    /\ s_pc' = "scored"
    /\ UNCHANGED <<s_in, appVars, analysisVars>>

\* app.py:348  "Specificity": score_specificity(resp, ref)
EvalSpecificity ==
    /\ s_pc = "call"
    /\ s_out' = [fn |-> "score_specificity", score |-> score_specificity(s_in.text, s_in.ref)]
    /\ s_pc' = "scored"
    /\ UNCHANGED <<s_in, appVars, analysisVars>>

\* utils/analysis.py:275  "Empathy": _score_empathy(resp)
ReportEmpathy ==
    /\ s_pc = "call"
    /\ s_out' = [fn |-> "_score_empathy", score |-> analysis_score_empathy(s_in.text)]
    /\ s_pc' = "scored"
    /\ UNCHANGED <<s_in, appVars, analysisVars>>

\* utils/analysis.py:276  "Specificity": _score_specificity(resp, ref)
ReportSpecificity ==
    /\ s_pc = "call"
    /\ s_out' = [fn |-> "_score_specificity", score |-> analysis_score_specificity(s_in.text, s_in.ref)]
    /\ s_pc' = "scored"
    /\ UNCHANGED <<s_in, appVars, analysisVars>>

NextScore ==
    \/ EvalEmpathy
    \/ EvalSpecificity
    \/ ReportEmpathy
    \/ ReportSpecificity

SpecScore == InitScore /\ [][NextScore]_vars

----------------------------------------------------------------------------
(* Properties of the "Reflect & Save" handler and the stores (Spec) *)

SubmitDone == pc = "done" /\ run.page = "write"

OnlyWhitespace(s) == \A i \in 1..Len(s) : s[i] \in WS

NothingPersisted == entries = pre.entries /\ runlog = pre.runlog

EntrySaved ==
    /\ Len(entries) = Len(pre.entries) + 1
    /\ entries[Len(entries)].entry = run.entry
    /\ entries[Len(entries)].emotion # <<>>
    /\ entries[Len(entries)].suggestion # <<>>

ModelInvocationFailed == run.kind \in {"missing-key", "network", "malformed"}

\* C1: a submit of a non-empty entry ends either with the entry saved (emotion
\* non-null, suggestion non-empty) and no error shown, or with an error shown
\* and nothing added to either store; never lost without an error, never an
\* error together with a persisted record.
C1_SavedOrErrorWithNothingPersisted ==
    (SubmitDone /\ ~OnlyWhitespace(run.entry)) =>
        /\ EntrySaved \/ (MsgError \in ui /\ NothingPersisted)
        /\ MsgError \in ui => NothingPersisted

\* C2: a submit of an empty or whitespace-only entry warns, issues no API
\* call and leaves both stores unchanged; every stored entry has a non-empty
\* text.
C2_BlankSubmitRejected ==
    /\ (SubmitDone /\ OnlyWhitespace(run.entry)) =>
          /\ MsgWarning \in ui
          /\ run.calls = 0
          /\ NothingPersisted
    /\ \A i \in 1..Len(entries) : entries[i].entry # <<>>

C2_Witness ==
    /\ SubmitDone
    /\ run.entry = <<" ">>
    /\ MsgWarning \in ui
    /\ Len(entries) >= 1

\* C3: when the model invocation of a submit fails (key absent, network
\* failure, malformed API response) an error is shown, no entry and no
\* run-log record is inserted, and the call is not issued a second time.
C3_FailedInvocationAbandoned ==
    (SubmitDone /\ ModelInvocationFailed) =>
        /\ MsgError \in ui
        /\ MsgSuccess \notin ui
        /\ NothingPersisted
        /\ run.calls <= 1
        /\ run.kind = "missing-key" => run.calls = 0

C3_Witness ==
    /\ SubmitDone
    /\ run.kind = "network"
    /\ run.calls = 1
    /\ MsgError \in ui
    /\ Len(pre.entries) >= 1
    /\ Len(pre.runlog) >= 1

\* C4: the run-log record a submit writes holds exactly the text the model
\* call returned as raw_response, the rendered prompt that was sent as
\* raw_request and the submitted entry text as user_input; the records
\* written before stay as they were, and every record's raw_request is the
\* prompt rendered from its prompt_version and user_input.
C4_RunLogHoldsRawExchange ==
    /\ SubmitDone =>
          \/ runlog = pre.runlog
          \/ /\ Len(runlog) = Len(pre.runlog) + 1
             /\ SubSeq(runlog, 1, Len(pre.runlog)) = pre.runlog
             /\ runlog[Len(runlog)].raw_response = run.raw
             /\ runlog[Len(runlog)].raw_request = run.request
             /\ runlog[Len(runlog)].user_input = run.entry
             /\ run.calls = 1
    /\ \A i \in 1..Len(runlog) :
          runlog[i].raw_request =
              App_PROMPT_VERSIONS[runlog[i].prompt_version]
              \o <<"<nl><nl>User journal entry:<nl><triple-quote><nl>">>
              \o runlog[i].user_input \o <<"<nl><triple-quote>">>

\* a record was logged whose raw response has prose around the JSON block
C4_Witness ==
    /\ SubmitDone
    /\ Len(runlog) = Len(pre.runlog) + 1
    /\ runlog[Len(runlog)].raw_response = run.raw
    /\ run.raw[1] = PROSE
    /\ HasBlock(run.raw)
    /\ runlog[Len(runlog)].user_input = <<" ", "a">>

\* C5: both stores are append-only: no step (table creation at startup, run
\* any number of times, submit, history view, evaluation view) removes or
\* changes a record already stored.
C5_StoresAppendOnly ==
    [][IsPrefix(entries, entries') /\ IsPrefix(runlog, runlog')]_vars

\* startup has run both table creations again over stores that hold records
C5_Witness ==
    /\ pc = "setup"
    /\ Len(entries) >= 2
    /\ Len(runlog) >= 1
    /\ entries = pre.entries
    /\ runlog = pre.runlog

\* C6 as stated: every submit that reaches the chat-completion call adds
\* exactly one run-log record, and a submit that fails before the call adds
\* none.
C6_OneRecordPerCallReached ==
    SubmitDone =>
        /\ run.calls >= 1 => Len(runlog) = Len(pre.runlog) + 1
        /\ run.calls = 0 => runlog = pre.runlog

\* C6 amended: a submit adds at most one run-log record, and only after its
\* call was issued; it adds exactly one when the call returned, the response
\* fields were usable and both store writes succeeded (the success message is
\* shown), and none when it fails before the call, at the call, in
\* post-processing or at a store write.
C6_OneRecordPerSuccessfulSubmit ==
    SubmitDone =>
        /\ Len(runlog) \in {Len(pre.runlog), Len(pre.runlog) + 1}
        /\ Len(runlog) = Len(pre.runlog) + 1 <=> MsgSuccess \in ui
        /\ MsgSuccess \in ui => run.calls = 1 /\ run.kind = "ok"
        /\ run.calls = 0 => runlog = pre.runlog
        /\ run.kind # "ok" => runlog = pre.runlog

C6_Witness ==
    /\ SubmitDone
    /\ run.calls = 1
    /\ MsgSuccess \in ui
    /\ Len(pre.runlog) >= 1
    /\ Len(runlog) = Len(pre.runlog) + 1

----------------------------------------------------------------------------
(* Properties of the analysis pipeline (SpecAnalysis) *)

Returned == a_pc = "returned"

\* the call returned text, so _extract_json ran on it
ExtractorRan == Returned /\ a_in.api_key /\ a_in.api.kind = "ok"

\* C7: an identifier that is no key of the prompt catalog yields the
\* template of the default version v1 and does not fail; a known identifier
\* yields its own template.
C7_UnknownVersionFallsBack ==
    (Returned /\ a_in.api_key) =>
        LET template ==
              CASE a_in.prompt_version = V1 -> PROMPT_VERSIONS[V1]
                [] a_in.prompt_version = V2 -> PROMPT_VERSIONS[V2]
                [] a_in.prompt_version = V3 -> PROMPT_VERSIONS[V3]
                [] OTHER -> PROMPT_VERSIONS[V1]
        IN  /\ IsPrefix(template, a_out.request)
            /\ a_out.request = RenderPrompt(template, a_in.text)
            /\ a_out.calls = 1

C7_Witness ==
    /\ Returned
    /\ a_in.api_key
    /\ a_in.prompt_version \notin {V1, V2, V3}
    /\ a_out.error = "none"
    /\ IsPrefix(PROMPT_VERSIONS[V1], a_out.request)

\* the fields a record lacks among those the prompt asks for
LacksRequired(d) == d["emotion"].t = "absent" \/ d["suggestion"].t = "absent"

\* the object the response text holds, when it holds exactly one
Written(text) == Blob(text)[2].m

C9_EmotionLowercaseLabel ==
    Returned =>
        /\ a_out.emotion # <<>>
        /\ ~HasUpper(a_out.emotion)

\* C10: when the extracted record's crisis flag is true the final suggestion
\* begins with the safety banner; when the flag is false or absent the banner
\* is not in the final suggestion.
C10_CrisisBannerPrefix ==
    (ExtractorRan /\ a_out.extracted) =>
        /\ a_out.data["crisis"] = JBool(TRUE) => IsPrefix(Banner, a_out.suggestion)
        /\ a_out.data["crisis"] \in {JBool(FALSE), JAbsent}
              => \A i \in 1..Len(a_out.suggestion) :
                    \A j \in 1..Len(Banner) : a_out.suggestion[i] # Banner[j]

\* the text holds one song, one quote and one tip of the library
HasTriple(s) ==
    \E l \in MusicLabels :
        /\ Range(MUSIC_LIBRARY[l].songs) \cap Range(s) # {}
        /\ Range(MUSIC_LIBRARY[l].quotes) \cap Range(s) # {}
        /\ Range(MUSIC_LIBRARY[l].tips) \cap Range(s) # {}

\* the suggestion text of the extracted record, "" when absent or null
ExtractedSuggestion == Or(Get(a_out.data, "suggestion"), JStr(<<>>)).s

\* C11: the fallback generator runs exactly when the suggestion of the
\* extracted record is empty, whatever the follow-up and crisis fields are:
\* then the final suggestion holds a song/quote/tip triple, and when the
\* extracted suggestion is non-empty no fallback content is added.
C11_FallbackIffSuggestionEmpty ==
    (ExtractorRan /\ a_out.error = "none") =>
        (ExtractedSuggestion = <<>> <=> HasTriple(a_out.suggestion))

\* the bucket of the table a label selects: its own, or neutrality's
OwnBucket(label) ==
    CASE label = L_anxiety    -> MUSIC_LIBRARY[L_anxiety]
      [] label = L_sadness    -> MUSIC_LIBRARY[L_sadness]
      [] label = L_joy        -> MUSIC_LIBRARY[L_joy]
      [] label = L_anger      -> MUSIC_LIBRARY[L_anger]
      [] label = L_loneliness -> MUSIC_LIBRARY[L_loneliness]
      [] label = L_fear       -> MUSIC_LIBRARY[L_fear]
      [] label = L_stress     -> MUSIC_LIBRARY[L_stress]
      [] OTHER                -> MUSIC_LIBRARY[L_neutrality]

\* C12: whenever the fallback generator runs for a label, its song, quote
\* and tip are all items of that label's own bucket when the label is one of
\* the eight recognized ones, and all items of the neutrality bucket when it
\* is not; the triple never mixes two buckets.
C12_TripleFromOneBucket ==
    (Returned /\ a_out.fallback) =>
        LET b == OwnBucket(a_out.emotion) IN
        \E i \in 1..Len(b.songs), j \in 1..Len(b.quotes), k \in 1..Len(b.tips) :
            a_out.suggestion = FallbackHtml(b.songs[i], b.quotes[j], b.tips[k])

\* the generator ran for "anxiety" and picked a song only that bucket has
C12_Witness ==
    /\ Returned
    /\ a_out.fallback
    /\ a_out.emotion = L_anxiety
    /\ "Breathe Me - Sia" \in Range(a_out.suggestion)

\* the generator ran for a label the table does not have
C12_WitnessUnrecognized ==
    /\ Returned
    /\ a_out.fallback
    /\ a_out.emotion = <<"z">>
    /\ "Riptide - Vance Joy" \in Range(a_out.suggestion)

----------------------------------------------------------------------------
(* Properties of the scoring functions (SpecScore) *)

Scored(fn) == s_pc = "scored" /\ s_out.fn = fn

\* the cues of the list that occur in the text, ignoring case
CuesIn(cues, text) == {i \in 1..Len(cues) : Occurs(Lower(cues[i]), Lower(text))}

\* the empathy score is the number of listed phrases in the text, capped at 5
EmpathyIsCappedCount ==
    /\ Scored("score_empathy") =>
           s_out.score = Min2(5, Cardinality(CuesIn(AppCues, s_in.text)))
    /\ Scored("_score_empathy") =>
           s_out.score = Min2(5, Cardinality(CuesIn(AnalysisCues, s_in.text)))

\* C13 as stated: the empathy score of a text is the number of phrases of the
\* fixed phrase list that occur in it ignoring case, capped at 5, and
\* score_empathy("I hear you, that sounds hard") equals 2.
C13_EmpathyCountAndExampleTwo ==
    /\ EmpathyIsCappedCount
    /\ (Scored("score_empathy") /\ s_in.text = ExampleText) => s_out.score = 2

\* C13 amended: the empathy score of a text is the number of phrases of the
\* fixed phrase list that occur in it ignoring case, capped at 5, and
\* score_empathy("I hear you, that sounds hard") equals 1: of the listed
\* phrases only "I hear" occurs in it ("that sounds" is not "it sounds").
C13_EmpathyCountAndExampleOne ==
    /\ EmpathyIsCappedCount
    /\ (Scored("score_empathy") /\ s_in.text = ExampleText) => s_out.score = 1
    /\ (Scored("_score_empathy") /\ s_in.text = ExampleText) => s_out.score = 1

\* the example text was scored and only "I hear" counted
C13_Witness ==
    /\ Scored("score_empathy")
    /\ s_in.text = ExampleText
    /\ s_out.score = 1

\* a text with more than five of the listed phrases scored the cap
C13_WitnessCap ==
    /\ Scored("score_empathy")
    /\ Cardinality(CuesIn(AppCues, s_in.text)) > 5
    /\ s_out.score = 5

\* the distinct tokens of the user's text that qualify, in input order:
\* lowercased, non-alphanumerics removed, longer than 5 characters
RECURSIVE Distinct(_, _)
Distinct(toks, seen) ==
    IF toks = <<>> THEN <<>>
    ELSE IF Head(toks) \in seen THEN Distinct(Tail(toks), seen)
    ELSE <<Head(toks)>> \o Distinct(Tail(toks), seen \cup {Head(toks)})

Normalised(ref) ==
    LET toks == Split(Lower(ref)) IN [i \in 1..Len(toks) |-> StripNonAlnum(toks[i])]

Qualifying(ref) == Distinct(SelectSeq(Normalised(ref), LAMBDA t : Len(t) > 5), {})

\* how many of the tokens q reappear in the response
Reappearing(q, text) == Cardinality({i \in 1..Len(q) : Occurs(q[i], Lower(text))})

SpecificityFns == {"score_specificity", "_score_specificity"}

\* C14 as stated: the specificity score is 1 plus the number of tokens, among
\* only the first 5 distinct qualifying tokens of the user input, that
\* reappear in the response, capped at 5; qualifying tokens after the fifth
\* never change the score.
C14_OnlyFirstFiveQualifyingCount ==
    (s_pc = "scored" /\ s_out.fn \in SpecificityFns) =>
        LET q == Qualifying(s_in.ref)
            first5 == SubSeq(q, 1, Min2(5, Len(q)))
        IN  s_out.score = Min2(5, 1 + Reappearing(first5, s_in.text))

\* C14 amended: the specificity score is 1 plus the number of distinct
\* qualifying tokens of the whole user input (lowercased, non-alphanumeric
\* characters removed, longer than 5 characters) that occur in the lowercased
\* response, capped at 5; a qualifying token after the fifth counts like any
\* other, and tokens of 5 or fewer characters never count.
C14_AllQualifyingCount ==
    (s_pc = "scored" /\ s_out.fn \in SpecificityFns) =>
        /\ s_out.score = Min2(5, 1 + Reappearing(Qualifying(s_in.ref), s_in.text))
        /\ (\A i \in 1..Len(Normalised(s_in.ref)) : Len(Normalised(s_in.ref)[i]) <= 5)
               => s_out.score = 1

\* six qualifying tokens, the response echoes only the sixth, and it counted
C14_Witness ==
    /\ Scored("score_specificity")
    /\ Len(Qualifying(s_in.ref)) > 5
    /\ Reappearing(SubSeq(Qualifying(s_in.ref), 1, 5), s_in.text) = 0
    /\ s_out.score = 2

\* only short words of the user's text reappear in the response: base point
C14_WitnessShort ==
    /\ Scored("score_specificity")
    /\ s_in.ref = <<"a", "b", "o", "u", "t", " ", "w", "e", "e", "k", "s">>
    /\ Occurs(<<"w", "e", "e", "k", "s">>, Lower(s_in.text))
    /\ s_out.score = 1

----------------------------------------------------------------------------
(* Properties of the app without an API key (Spec) *)

\* the rows of a store or of a view, without their order
Rows(seq) == {seq[i] : i \in 1..Len(seq)}

C15_WitnessHistory ==
    /\ pc = "done"
    /\ run.page = "history"
    /\ ~cfg.api_key
    /\ Len(shown) >= 1

\* C16: a submit writes the journal entry and its run-log record as a pair,
\* so after any sequence of submits, failed ones included, the entries store
\* and the run log hold the same number of records and every entry has the
\* run-log record of the invocation that produced it.
C16_EntriesPairedWithRunLog ==
    /\ Len(entries) = Len(runlog)
    /\ \A i \in 1..Len(entries) :
           \E j \in 1..Len(runlog) : runlog[j].user_input = entries[i].entry

====
